---------------------------- MODULE Spec2Model ----------------------------
(***************************************************************************)
(* mlserver: the model registry (ModelRepo), the worker lifecycle          *)
(* (startModel: supervisor and bridge goroutines) and the HTTP handlers    *)
(* that drive them, as a state machine.                                    *)
(*                                                                         *)
(* Tasks: HTTP handler goroutines (Clients), and for every call of         *)
(* startModel (Starts) one supervisor goroutine, one bridge goroutine and  *)
(* one python worker process.                                              *)
(*                                                                         *)
(* A critical section of the registry lock (ModelRepo.RWMutex) contains no *)
(* blocking operation and is one step.  The record lock (Model.runLock) is *)
(* held by Get across startModel and is modelled explicitly.  Fields that  *)
(* the code reads without a lock (m.req, m.rep, m.cmd) are read in a step  *)
(* of their own, so a racing read sees the value before or after a write.  *)
(***************************************************************************)
EXTENDS Integers, FiniteSets, Sequences, TLC

\* ------------------------------------------------------------- bounds
NClients  == 2      \* concurrent HTTP handler goroutines
MaxStarts == 2      \* calls of startModel
MaxStatus  == 2     \* GET /models/<id> requests served
MaxStart   == 2     \* POST /models/running requests served
MaxPredict == 2     \* POST /models/<id> requests served
MaxStop    == 2     \* DELETE /models/running/<id> requests served
MaxFit     == 2     \* POST /models requests served (fit jobs)
MaxList    == 1     \* GET /models requests served
MaxRunning == 1     \* GET /models/running requests served
MaxRemove  == 1     \* calls of ModelRepo.Remove
\* Model objects LoadModelData can allocate: one per request at most (each
\* handler and each fit job calls Get or LoadModelData once)
MaxRecs == MaxStatus + MaxStart + MaxPredict + MaxStop + MaxFit

NULL == 0           \* nil pointer / nil channel / nil *exec.Cmd

Clients == 1..NClients
\* the Model objects: those LoadModelData allocates, then the one NewModel
\* makes for each fit job
Recs    == 1..(MaxRecs + MaxFit)
Starts  == 1..MaxStarts
Jobs    == 1..MaxFit
\* "m1" has a valid metadata file, "m2" has none
ModelIds == {"m1", "m2"}
\* the entries of the model directory in the order filepath.Glob returns them
GlobOrder == <<"m1", "m2">>

\* startModel number k makes two channels: m.req and m.rep
ReqOf(k) == 2 * k - 1
RepOf(k) == 2 * k
Chans    == 1..(2 * MaxStarts)
StartOfChan(ch) == (ch + 1) \div 2

\* a reply read from the zmq socket: the worker `by` answering request `of`;
\* NoReply is the nil byte slice (IPC error, or a receive on a closed channel)
NoReply == [of |-> 0, by |-> 0]
Reply(msg, k) == [of |-> msg, by |-> k]

VARIABLES
  disk,        \* id -> "none" | "valid" | "corrupt" | "unreadable": <path>/<id>/<id>.json
  collection,  \* ModelRepo.collection: id -> record or NULL
  heap,        \* the Model objects: ID, Trained, Running, req, rep, cmd
  nrec,        \* Model objects allocated so far
  runLock,     \* Model.runLock: record -> NULL or the task that holds it
  start,       \* per call of startModel: its record, process, goroutines
  nstart,      \* calls of startModel so far
  closed,      \* channel -> whether close() was called on it
  cl,          \* HTTP handler goroutines: position and locals
  last,        \* the response, if any, that the step just taken gave an HTTP client
  quota,       \* HTTP requests the clients will send, per kind
  nreq,        \* HTTP requests accepted so far, per kind
  crashed,     \* "no", or the runtime panic that killed the server process
  fit          \* fitModel goroutines: position, model id, temp file, exit status

vars == <<disk, collection, heap, nrec, runLock, start, nstart, closed,
          cl, last, quota, nreq, crashed, fit>>

\* ------------------------------------------------------------- values
Ops == {"status", "start", "predict", "stop", "fit", "list", "index", "running",
        "remove"}
\* the number of the next request; a prediction request's number tags its payload
NextReq == 1 + nreq["status"] + nreq["start"] + nreq["predict"] + nreq["stop"]
             + nreq["fit"] + nreq["list"]

NoModel == [ID |-> "", Trained |-> FALSE, Running |-> FALSE,
            req |-> NULL, rep |-> NULL, cmd |-> NULL]

\* a call of startModel.  lost is history: the request the bridge held,
\* unanswered, when the worker process exited
NoStart == [rec |-> NULL, proc |-> "none", signalled |-> FALSE,
            sup |-> "none", bridge |-> "none",
            breq |-> NULL, brep |-> NULL, cur |-> 0, resp |-> NoReply,
            lost |-> 0]

\* a handler's locals.  k0 is history: the calls of startModel made before
\* this handler's Get looked the record up.  bad: the request body does not
\* parse.  all, seen, runningModels: the slice All returned, the part of it
\* the loop of HandleRunningModels has visited, the records it kept
Idle == [pc |-> "idle", op |-> "", id |-> "", m |-> NULL, hit |-> FALSE,
         k0 |-> 0, k |-> 0, ch |-> NULL, msg |-> 0, by |-> 0, bad |-> FALSE,
         all |-> {}, seen |-> {}, runningModels |-> {}]

NoRes == [c |-> 0, op |-> "", id |-> "", http |-> 0, err |-> "", m |-> NULL,
          hit |-> FALSE, started |-> 0, running |-> FALSE,
          msg |-> 0, by |-> 0, resp |-> NoReply, nstarts |-> 0, proc |-> "",
          all |-> {}, runningModels |-> {}]

StartsOf(r) == {k \in Starts : start[k].rec = r}

\* a fitModel goroutine.  tmp: the temporary file of the training data exists;
\* status: how cmd.Run ended
NoFit == [pc |-> "none", id |-> "", tmp |-> FALSE, status |-> ""]

\* ------------------------------------------------------------- Init
TypeOK ==
  /\ disk \in [ModelIds -> {"none", "valid", "corrupt", "unreadable"}]
  /\ collection \in [ModelIds -> Recs \cup {NULL}]
  /\ nrec \in 0..MaxRecs
  /\ nstart \in 0..MaxStarts
  /\ runLock \in [Recs -> Clients \cup {NULL}]
  /\ closed \in [Chans -> BOOLEAN]
  /\ \A r \in Recs : heap[r].req \in Chans \cup {NULL}
  /\ \A c \in Clients : cl[c].m \in Recs \cup {NULL}
  /\ \A j \in Jobs : fit[j].id \in ModelIds \cup {""}

Init ==
  /\ disk = [i \in ModelIds |-> IF i = "m1" THEN "valid" ELSE "none"]
  /\ collection = [i \in ModelIds |-> NULL]
  /\ heap = [r \in Recs |-> NoModel]
  /\ nrec = 0
  /\ runLock = [r \in Recs |-> NULL]
  /\ start = [k \in Starts |-> NoStart]
  /\ nstart = 0
  /\ closed = [ch \in Chans |-> FALSE]
  /\ cl = [c \in Clients |-> Idle]
  /\ last = NoRes
  /\ quota = [o \in Ops |-> 1]
  /\ nreq = [o \in Ops |-> 0]
  /\ crashed = "no"
  /\ fit = [j \in Jobs |-> NoFit]

\* ------------------------------------------------------------- handlers
\* the server process has not died of a panic
Up == crashed = "no"

ErrModelNotFound == "model not found"

\* faulty variant: every error answered as a server-side failure
HttpAlways500(err) == 500

\* faulty variant: every error answered as not found
HttpAlways404(err) == 404

\* http.Error in the handlers: ErrModelNotFound is 404, any other error 500
HttpOfError(err) == IF err = ErrModelNotFound THEN 404 ELSE 500

Outcome(c, http, err, m, running) ==
  [c |-> c, op |-> cl[c].op, id |-> cl[c].id, http |-> http, err |-> err, m |-> m,
   hit |-> cl[c].hit, started |-> cl[c].k, running |-> running,
   msg |-> cl[c].msg, by |-> cl[c].by, resp |-> NoReply,
   nstarts |-> IF m = NULL THEN 0 ELSE Cardinality(StartsOf(m)), proc |-> "",
   all |-> {}, runningModels |-> {}]

\* the handler goroutine writes its response (or panics, which net/http
\* recovers by dropping the connection: http 0) and ends
Finish(c, r) ==
  /\ cl' = [cl EXCEPT ![c] = Idle]
  /\ last' = r

RunningOf(m) == IF m = NULL THEN FALSE ELSE heap[m].Running

\* main has run IndexModelDir and the server listens
Indexed == nreq["index"] = quota["index"]

\* a handler goroutine starts on a request whose body parses (ok) or not
AcceptBody(c, op, id, pc, ok) ==
  /\ Indexed
  /\ cl[c].pc = "idle"
  /\ nreq[op] < quota[op]
  /\ UNCHANGED quota
  /\ nreq' = [nreq EXCEPT ![op] = @ + 1]
  /\ cl' = [cl EXCEPT ![c] = [Idle EXCEPT !.pc = pc, !.op = op, !.id = id, !.msg = NextReq,
                                          !.bad = ~ok]]

\* a handler goroutine starts on a request
Accept(c, op, id, pc) == AcceptBody(c, op, id, pc, TRUE)

\* HandleModel, GET: the status of a model
HandleModelGET(c, id) ==
  /\ Up
  /\ Accept(c, "status", id, "LoadModelData")
  /\ last' = NoRes
  /\ UNCHANGED <<fit, disk, collection, heap, nrec, runLock, start, nstart, closed, crashed>>

\* HandleModel, PUT/POST: Get, then parseFitPredictRequest, then Predict
HandleModelPOST(c, id, ok) ==
  /\ Up
  /\ AcceptBody(c, "predict", id, "Get", ok)
  /\ last' = NoRes
  /\ UNCHANGED <<fit, disk, collection, heap, nrec, runLock, start, nstart, closed, crashed>>

\* HandleRunningModels, PUT/POST: Get
HandleRunningModelsPOST(c, id) ==
  /\ Up
  /\ Accept(c, "start", id, "Get")
  /\ last' = NoRes
  /\ UNCHANGED <<fit, disk, collection, heap, nrec, runLock, start, nstart, closed, crashed>>

\* HandleStopModel, DELETE: LoadModelData, then Stop
HandleStopModel(c, id) ==
  /\ Up
  /\ Accept(c, "stop", id, "LoadModelData")
  /\ last' = NoRes
  /\ UNCHANGED <<fit, disk, collection, heap, nrec, runLock, start, nstart, closed, crashed>>

\* ------------------------------------------------------------- ModelRepo
\* faulty variant: a registry whose lock Get keeps while it starts the worker
\* and the handler keeps while Predict waits
RepoLockHeldByCaller ==
  \A c \in Clients : cl[c].pc \notin {"startModel", "Connect", "send", "rep", "recv"}

\* the registry lock (ModelRepo.RWMutex) can be taken.  Every critical section
\* (Get 157-159, LoadModelData 190-192, Add 116-118, All 141-145) only reads or
\* writes the map and is inside one step, so between steps the lock is free
RepoLockFree == TRUE

\* Get, lines 157-163: look the id up under the read lock
Get(c) ==
  /\ Up
  /\ RepoLockFree
  /\ cl[c].pc = "Get"
  /\ cl' = [cl EXCEPT ![c].m = collection[cl[c].id],
                      ![c].hit = (collection[cl[c].id] # NULL),
                      ![c].k0 = nstart,
                      ![c].pc = IF collection[cl[c].id] # NULL THEN "Add" ELSE "LoadModelData"]
  /\ UNCHANGED <<fit, disk, quota, collection, heap, nrec, runLock, start, nstart, closed, nreq, crashed>>
  /\ last' = NoRes

\* what LoadModelData returns with a nil error: `m`, the variable of the
\* function's scope.  On a cache miss the loaded record is a second `m`,
\* declared inside the if block, and the outer one still holds the nil of the
\* failed lookup.
LoadModelDataResult(outer, loaded) == outer

\* LoadModelData returned (m, err) to Get or to a handler
LoadModelDataReturn(c, m, err) ==
  IF err # ""
  THEN Finish(c, Outcome(c, HttpOfError(err), err, NULL, FALSE))
  ELSE CASE cl[c].op \in {"predict", "start"} ->
              /\ cl' = [cl EXCEPT ![c].m = m, ![c].pc = "Add"]
              /\ last' = NoRes
         [] cl[c].op = "status" ->
              Finish(c, Outcome(c, 200, "", m, RunningOf(m)))
         [] cl[c].op = "stop" ->
              /\ cl' = [cl EXCEPT ![c].m = m, ![c].pc = "Stop"]
              /\ last' = NoRes

\* LoadModelData, lines 190-193: check the collection first
LoadModelData(c) ==
  /\ Up
  /\ RepoLockFree
  /\ cl[c].pc = "LoadModelData"
  /\ IF collection[cl[c].id] # NULL
     THEN LoadModelDataReturn(c, collection[cl[c].id], "")
     ELSE /\ cl' = [cl EXCEPT ![c].pc = "LoadModelData_open"]
          /\ last' = NoRes
  /\ UNCHANGED <<fit, disk, quota, collection, heap, nrec, runLock, start, nstart, closed, nreq, crashed>>

\* faulty variant: a load without line 210, m.Trained = true
DecodedUntrained(id) == [NoModel EXCEPT !.ID = id]

\* faulty variant: a load that marks the record as running
DecodedRunning(id) == [NoModel EXCEPT !.ID = id, !.Trained = TRUE, !.Running = TRUE]

\* LoadModelData, lines 204-210: the Model decoded from <path>/<id>/<id>.json.
\* The file the fit worker writes holds the id, the metadata and the
\* performance and no "running" key: Running keeps its zero value, as do the
\* unexported req, rep and cmd
Decoded(id) == [NoModel EXCEPT !.ID = id, !.Trained = TRUE]

\* faulty variant: the loaded record is not put into the collection
AddSkipped(id, r) == collection

\* LoadModelData, line 212: r.Add(&m) (Add, lines 115-119, under the write lock)
AddLoaded(id, r) == [collection EXCEPT ![id] = r]

\* LoadModelData, lines 194-213: open <path>/<id>/<id>.json (no such file:
\* ErrModelNotFound; another error of os.Open: that error), decode it (an
\* error: that error), add the new record to the collection (Add, under the
\* write lock)
LoadModelData_open(c) ==
  /\ Up
  /\ RepoLockFree
  /\ cl[c].pc = "LoadModelData_open"
  /\ LET id == cl[c].id IN
     CASE disk[id] = "none" ->
            /\ LoadModelDataReturn(c, NULL, ErrModelNotFound)
            /\ UNCHANGED <<collection, heap, nrec>>
       [] disk[id] = "unreadable" ->
            /\ LoadModelDataReturn(c, NULL, "open error")
            /\ UNCHANGED <<collection, heap, nrec>>
       [] disk[id] = "corrupt" ->
            /\ LoadModelDataReturn(c, NULL, "decode error")
            /\ UNCHANGED <<collection, heap, nrec>>
       [] disk[id] = "valid" ->
            /\ nrec < MaxRecs
            /\ nrec' = nrec + 1
            /\ heap' = [heap EXCEPT ![nrec + 1] = Decoded(id)]
            /\ collection' = AddLoaded(id, nrec + 1)
            /\ LoadModelDataReturn(c, LoadModelDataResult(NULL, nrec + 1), "")
  /\ UNCHANGED <<fit, disk, quota, runLock, start, nstart, closed, nreq, crashed>>

\* Get, line 169: r.Add(m); m.ID dereferences m, which panics when it is nil
Add(c) ==
  /\ Up
  /\ RepoLockFree
  /\ cl[c].pc = "Add"
  /\ IF cl[c].m = NULL
     THEN /\ Finish(c, Outcome(c, 0, "panic: nil pointer dereference", NULL, FALSE))
          /\ UNCHANGED collection
     ELSE /\ collection' = [collection EXCEPT ![heap[cl[c].m].ID] = cl[c].m]
          /\ cl' = [cl EXCEPT ![c].pc = "runLock"]
          /\ last' = NoRes
  /\ UNCHANGED <<fit, disk, quota, heap, nrec, runLock, start, nstart, closed, nreq, crashed>>

\* Get returned (m, nil) to its handler: HandleRunningModels answers 201,
\* HandleModel parses the body (lines 291-295: 400 when it is malformed) and
\* goes on to Predict
GetReturn(c, m) ==
  CASE cl[c].op = "start" ->
         Finish(c, Outcome(c, 201, "", m, TRUE))
    [] cl[c].op # "start" /\ cl[c].bad ->
         Finish(c, Outcome(c, 400, "parse error", m, heap[m].Running))
    [] OTHER ->
         /\ cl' = [cl EXCEPT ![c].pc = "Predict"]
         /\ last' = NoRes

\* faulty variant: Lock() that never waits
runLockNeverHeld(m) == TRUE

\* m.runLock.Lock() returns only when no one holds the lock
runLockFree(m) == runLock[m] = NULL

\* faulty variant: a Get that starts the model whatever Running says
NeverRunning(m) == FALSE

\* Get, line 174: m.Running, read with the record's lock held
IsRunning(m) == heap[m].Running

\* Get, lines 172-174: take m.runLock; a running model is returned as it is
\* (lock and deferred unlock in one step), otherwise startModel runs with the
\* lock held
Get_runLock(c) ==
  /\ Up
  /\ cl[c].pc = "runLock"
  /\ runLockFree(cl[c].m)
  /\ IF IsRunning(cl[c].m)
     THEN /\ GetReturn(c, cl[c].m)
          /\ UNCHANGED <<runLock, nstart>>
     ELSE /\ nstart < MaxStarts
          /\ nstart' = nstart + 1
          /\ runLock' = [runLock EXCEPT ![cl[c].m] = c]
          /\ cl' = [cl EXCEPT ![c].pc = "startModel", ![c].k = nstart + 1]
          /\ last' = NoRes
  /\ UNCHANGED <<fit, disk, quota, collection, heap, nrec, start, closed, nreq, crashed>>

\* ------------------------------------------------------------- startModel
\* faulty variant: a Get that returns without releasing the lock
UnlockSkipped(m) == runLock

\* Get, line 173: the deferred m.runLock.Unlock(), run on every return
Unlock(m) == [runLock EXCEPT ![m] = NULL]

\* Get, lines 176-178: startModel returned an error; Get returns (nil, err),
\* the deferred m.runLock.Unlock() runs, the handler answers 500
startModelFailed(c, err) ==
  /\ runLock' = Unlock(cl[c].m)
  /\ Finish(c, Outcome(c, 500, err, NULL, heap'[cl[c].m].Running))

\* startModel, lines 80-118: make the channels, set Running, create the REQ
\* socket (which may fail), build the command, attach it to the model and
\* launch the supervisor goroutine
startModel(c) ==
  /\ Up
  /\ cl[c].pc = "startModel"
  /\ LET m == cl[c].m
         k == cl[c].k
         made == [heap EXCEPT ![m].req = ReqOf(k), ![m].rep = RepOf(k),
                              ![m].Running = TRUE]
     IN \/ \* zmq.NewSocket fails: return err
           /\ heap' = made
           /\ start' = [start EXCEPT ![k].rec = m]
           /\ startModelFailed(c, "zmq.NewSocket")
        \/ /\ heap' = [made EXCEPT ![m].cmd = k]
           /\ start' = [start EXCEPT ![k].rec = m, ![k].proc = "created",
                                     ![k].sup = "Run"]
           /\ cl' = [cl EXCEPT ![c].pc = "Connect"]
           /\ UNCHANGED runLock /\ last' = NoRes
  /\ UNCHANGED <<fit, disk, quota, collection, nrec, nstart, closed, nreq, crashed>>

\* startModel, lines 120-143: connect the socket (which may fail), launch the
\* bridge goroutine, return nil; Get returns (m, nil) and unlocks
startModel_Connect(c) ==
  /\ Up
  /\ cl[c].pc = "Connect"
  /\ LET m == cl[c].m
         k == cl[c].k
     IN \/ /\ UNCHANGED <<heap, start>>
           /\ startModelFailed(c, "socket.Connect")
        \/ /\ start' = [start EXCEPT ![k].bridge = "range"]
           /\ runLock' = Unlock(m)
           /\ GetReturn(c, m)
           /\ UNCHANGED heap
  /\ UNCHANGED <<fit, disk, quota, collection, nrec, nstart, closed, nreq, crashed>>

\* ------------------------------------------------------------- supervisor
\* faulty variant: a supervisor that runs the command again
SupervisorRunsAgain(k) == "Run"

\* supervisor, lines 111-117: when cmd.Run has returned the goroutine logs and
\* returns into its deferred function; there is no loop
SupervisorAfterRun(k) == "defer"

\* supervisor, line 111: cmd.Run starts python3, or fails to
Run(k) ==
  /\ Up
  /\ start[k].sup = "Run"
  /\ \/ start' = [start EXCEPT ![k].proc = "alive", ![k].sup = "Wait"]
     \/ start' = [start EXCEPT ![k].proc = "failed", ![k].sup = SupervisorAfterRun(k)]
  /\ UNCHANGED <<fit, disk, quota, collection, heap, nrec, runLock, nstart, closed, cl, nreq, crashed>>
  /\ last' = NoRes

\* the worker process exits (sys.exit after SIGINT, a crash, a kill) and
\* cmd.Run returns in the supervisor
ProcExit(k) ==
  /\ Up
  /\ start[k].proc = "alive"
  /\ start' = [start EXCEPT ![k].proc = "exited", ![k].sup = SupervisorAfterRun(k),
                            ![k].lost = IF start[k].bridge = "ipc" THEN start[k].cur ELSE 0]
  /\ UNCHANGED <<fit, disk, quota, collection, heap, nrec, runLock, nstart, closed, cl, nreq, crashed>>
  /\ last' = NoRes

\* supervisor, deferred function, lines 104-106: Lock, Running = false, Unlock
supervisor_Running(k) ==
  /\ Up
  /\ start[k].sup = "defer"
  /\ runLockFree(start[k].rec)
  /\ heap' = [heap EXCEPT ![start[k].rec].Running = FALSE]
  /\ start' = [start EXCEPT ![k].sup = "close"]
  /\ UNCHANGED <<fit, disk, quota, collection, nrec, runLock, nstart, closed, cl, nreq, crashed>>
  /\ last' = NoRes

\* the channel the supervisor closes: m.req, read when close runs
SupervisorCloses(k) == heap[start[k].rec].req

\* supervisor, deferred function, line 107: close(m.req); closing a closed
\* channel panics, in a goroutine nothing recovers
supervisor_close(k) ==
  /\ Up
  /\ start[k].sup = "close"
  /\ IF closed[SupervisorCloses(k)]
     THEN /\ crashed' = "panic: close of closed channel"
          /\ UNCHANGED closed
     ELSE /\ closed' = [closed EXCEPT ![SupervisorCloses(k)] = TRUE]
          /\ UNCHANGED crashed
  /\ start' = [start EXCEPT ![k].sup = "done"]
  /\ UNCHANGED <<fit, disk, quota, collection, heap, nrec, runLock, nstart, cl, nreq>>
  /\ last' = NoRes

\* ------------------------------------------------------------- bridge
\* bridge, line 129: `range m.req` evaluates m.req once, when the goroutine
\* reaches the loop
bridge_range(k) ==
  /\ Up
  /\ start[k].bridge = "range"
  /\ start' = [start EXCEPT ![k].breq = heap[start[k].rec].req, ![k].bridge = "recv"]
  /\ UNCHANGED <<fit, disk, quota, collection, heap, nrec, runLock, nstart, closed, cl, nreq, crashed>>
  /\ last' = NoRes

\* faulty variant: one bridge at a time, for all models together
SendersOneBridge(k) ==
  IF \E j \in Starts \ {k} : start[j].bridge \in {"ipc", "reply", "send"}
  THEN {}
  ELSE {c \in Clients : cl[c].pc = "send" /\ cl[c].ch = start[k].breq}

\* the callers whose send the bridge may take: those blocked in
\* `m.req <- buf` on the bridge's channel
Senders(k) == {c \in Clients : cl[c].pc = "send" /\ cl[c].ch = start[k].breq}

\* bridge, line 129: the unbuffered channel hands one caller's request over
bridge_recv(k) ==
  /\ Up
  /\ start[k].bridge = "recv"
  /\ ~closed[start[k].breq]
  /\ \E c \in Senders(k) :
        /\ start' = [start EXCEPT ![k].cur = cl[c].msg, ![k].bridge = "ipc"]
        /\ cl' = [cl EXCEPT ![c].pc = "rep", ![c].by = k, ![c].ch = NULL]
  /\ UNCHANGED <<fit, disk, quota, collection, heap, nrec, runLock, nstart, closed, nreq, crashed>>
  /\ last' = NoRes

\* bridge, line 129: m.req was closed, the loop ends
bridge_range_end(k) ==
  /\ Up
  /\ start[k].bridge = "recv"
  /\ closed[start[k].breq]
  /\ start' = [start EXCEPT ![k].bridge = "close"]
  /\ UNCHANGED <<fit, disk, quota, collection, heap, nrec, runLock, nstart, closed, cl, nreq, crashed>>
  /\ last' = NoRes

\* bridge, lines 130-137: SendBytes, RecvBytes.  The socket of start k talks to
\* the worker of start k.  A live worker answers each request with one reply
\* (predict.py, recv_json / send_json); with the worker gone RecvBytes blocks,
\* or fails and leaves resp nil (the error is logged and ignored).
bridge_ipc(k) ==
  /\ Up
  /\ start[k].bridge = "ipc"
  /\ \/ /\ start[k].proc = "alive"
        /\ start' = [start EXCEPT ![k].resp = Reply(start[k].cur, k), ![k].bridge = "reply"]
     \/ /\ start[k].proc \in {"exited", "failed"}
        /\ start' = [start EXCEPT ![k].resp = NoReply, ![k].bridge = "reply"]
  /\ UNCHANGED <<fit, disk, quota, collection, heap, nrec, runLock, nstart, closed, cl, nreq, crashed>>
  /\ last' = NoRes

\* bridge, line 138: `m.rep <- resp` evaluates m.rep
bridge_rep(k) ==
  /\ Up
  /\ start[k].bridge = "reply"
  /\ start' = [start EXCEPT ![k].brep = heap[start[k].rec].rep, ![k].bridge = "send"]
  /\ UNCHANGED <<fit, disk, quota, collection, heap, nrec, runLock, nstart, closed, cl, nreq, crashed>>
  /\ last' = NoRes

\* the callers that may take the bridge's reply: those blocked in `<-m.rep`
\* on the channel the bridge sends on
Receivers(k) == {c \in Clients : cl[c].pc = "recv" /\ cl[c].ch = start[k].brep}

\* Predict, lines 76-87: decode the reply (nil decodes to no labels, the error
\* is logged) and return the Prediction; HandleModel writes it with 200
PredictReturn(c, resp) ==
  Finish(c, [Outcome(c, 200, "", cl[c].m, heap[cl[c].m].Running) EXCEPT !.resp = resp])

\* bridge, line 138: the reply is handed to a caller blocked in `<-m.rep`; a
\* send on a closed channel panics
bridge_send(k) ==
  /\ Up
  /\ start[k].bridge = "send"
  /\ IF closed[start[k].brep]
     THEN /\ crashed' = "panic: send on closed channel"
          /\ start' = [start EXCEPT ![k].bridge = "done"]
          /\ UNCHANGED cl /\ last' = NoRes
     ELSE /\ \E c \in Receivers(k) : PredictReturn(c, start[k].resp)
          /\ start' = [start EXCEPT ![k].bridge = "recv", ![k].cur = 0,
                                    ![k].resp = NoReply, ![k].brep = NULL]
          /\ UNCHANGED crashed
  /\ UNCHANGED <<fit, disk, quota, collection, heap, nrec, runLock, nstart, closed, nreq>>

\* the channel the bridge closes: m.rep, read when close runs
BridgeCloses(k) == heap[start[k].rec].rep

\* bridge, line 140: close(m.rep)
bridge_close(k) ==
  /\ Up
  /\ start[k].bridge = "close"
  /\ IF closed[BridgeCloses(k)]
     THEN /\ crashed' = "panic: close of closed channel"
          /\ UNCHANGED closed
     ELSE /\ closed' = [closed EXCEPT ![BridgeCloses(k)] = TRUE]
          /\ UNCHANGED crashed
  /\ start' = [start EXCEPT ![k].bridge = "done"]
  /\ UNCHANGED <<fit, disk, quota, collection, heap, nrec, runLock, nstart, cl, nreq>>
  /\ last' = NoRes

\* ------------------------------------------------------------- Model
\* Predict, lines 69-73: a nil m.req returns the empty Prediction, otherwise
\* the request is sent on m.req
Predict(c) ==
  /\ Up
  /\ cl[c].pc = "Predict"
  /\ IF heap[cl[c].m].req = NULL
     THEN Finish(c, Outcome(c, 200, "", cl[c].m, heap[cl[c].m].Running))
     ELSE /\ cl' = [cl EXCEPT ![c].ch = heap[cl[c].m].req, ![c].pc = "send"]
          /\ last' = NoRes
  /\ UNCHANGED <<fit, disk, quota, collection, heap, nrec, runLock, start, nstart, closed, nreq, crashed>>

\* Predict, line 73: a send on a closed channel panics, also when the channel
\* is closed while the sender is blocked; net/http recovers the handler's panic
Predict_send_closed(c) ==
  /\ Up
  /\ cl[c].pc = "send"
  /\ closed[cl[c].ch]
  /\ Finish(c, Outcome(c, 0, "panic: send on closed channel", cl[c].m, heap[cl[c].m].Running))
  /\ UNCHANGED <<fit, disk, quota, collection, heap, nrec, runLock, start, nstart, closed, nreq, crashed>>

\* Predict, line 74: `<-m.rep` evaluates m.rep
Predict_rep(c) ==
  /\ Up
  /\ cl[c].pc = "rep"
  /\ cl' = [cl EXCEPT ![c].ch = heap[cl[c].m].rep, ![c].pc = "recv"]
  /\ UNCHANGED <<fit, disk, quota, collection, heap, nrec, runLock, start, nstart, closed, nreq, crashed>>
  /\ last' = NoRes

\* Predict, line 74: a receive on a closed channel yields nil
Predict_recv_closed(c) ==
  /\ Up
  /\ cl[c].pc = "recv"
  /\ closed[cl[c].ch]
  /\ PredictReturn(c, NoReply)
  /\ UNCHANGED <<fit, disk, quota, collection, heap, nrec, runLock, start, nstart, closed, nreq, crashed>>

\* faulty variant: Stop that kills the process and waits for it
SignalAndWait(k) ==
  [start EXCEPT ![k].signalled = TRUE, ![k].proc = "exited", ![k].sup = "defer"]

\* m.cmd.Process.Signal(os.Interrupt), line 93: SIGINT is sent, nothing more
Signal(k) == [start EXCEPT ![k].signalled = TRUE]

\* the response of HandleStopModel, with the state Stop found the process in
StopOutcome(c, http, err, m, proc) ==
  [Outcome(c, http, err, m, RunningOf(m)) EXCEPT !.proc = proc]

\* Stop, lines 91-96, called by HandleStopModel on what LoadModelData returned:
\* a nil m or a nil m.cmd.Process (the command was never started) panics;
\* Signal on a process that was already waited for returns an error (500)
Stop(c) ==
  /\ Up
  /\ cl[c].pc = "Stop"
  /\ LET m == cl[c].m
         k == IF m = NULL THEN NULL ELSE heap[m].cmd
     IN CASE m = NULL ->
               /\ Finish(c, StopOutcome(c, 0, "panic: nil pointer dereference", NULL, "nil"))
               /\ UNCHANGED start
          [] m # NULL /\ k = NULL ->
               /\ Finish(c, StopOutcome(c, 202, "", m, "none"))
               /\ UNCHANGED start
          [] m # NULL /\ k # NULL /\ start[k].proc \in {"created", "failed"} ->
               /\ Finish(c, StopOutcome(c, 0, "panic: nil pointer dereference", m, start[k].proc))
               /\ UNCHANGED start
          [] m # NULL /\ k # NULL /\ start[k].proc = "alive" ->
               /\ Finish(c, StopOutcome(c, 202, "", m, "alive"))
               /\ start' = Signal(k)
          [] m # NULL /\ k # NULL /\ start[k].proc = "exited" ->
               /\ Finish(c, StopOutcome(c, 500, "os: process already finished", m, "exited"))
               /\ UNCHANGED start
  /\ UNCHANGED <<fit, disk, quota, collection, heap, nrec, runLock, nstart, closed, nreq, crashed>>

\* ------------------------------------------------------------- fitModel
\* a response written by a handler that is one step long
Answer(c, op, id, http) ==
  [NoRes EXCEPT !.c = c, !.op = op, !.id = id, !.http = http]

\* All, lines 138-148: the records of the collection, read under the read lock
All == {collection[i] : i \in ModelIds} \ {NULL}

\* HandleModels, GET: the list of all models in the index
HandleModelsGET(c) ==
  /\ Up
  /\ RepoLockFree
  /\ Indexed
  /\ cl[c].pc = "idle"
  /\ nreq["list"] < quota["list"]
  /\ nreq' = [nreq EXCEPT !["list"] = @ + 1]
  /\ last' = [Answer(c, "list", "", 200) EXCEPT !.all = All]
  /\ UNCHANGED <<fit, disk, quota, collection, heap, nrec, runLock, start, nstart,
                 closed, cl, crashed>>

\* faulty variant: All that hands out a view of the map instead of a slice
AllLiveView(c) == All

\* the slice All returned to handler c (lines 139-147): a slice of its own,
\* filled under the read lock, that the registry does not touch afterwards
AllReturned(c) == cl[c].all

\* HandleRunningModels, GET, line 348: models := s.All()
HandleRunningModelsGET(c) ==
  /\ Up
  /\ RepoLockFree
  /\ Indexed
  /\ cl[c].pc = "idle"
  /\ nreq["running"] < quota["running"]
  /\ nreq' = [nreq EXCEPT !["running"] = @ + 1]
  /\ cl' = [cl EXCEPT ![c] = [Idle EXCEPT !.pc = "range", !.op = "running", !.all = All]]
  /\ last' = NoRes
  /\ UNCHANGED <<fit, disk, quota, collection, heap, nrec, runLock, start, nstart,
                 closed, crashed>>

\* HandleRunningModels, GET, lines 350-356: one turn of the loop over the
\* slice; model.runLock.RLock() waits for a Get that is starting the model
HandleRunningModels_range(c) ==
  /\ Up
  /\ cl[c].pc = "range"
  /\ \E r \in AllReturned(c) \ cl[c].seen :
        /\ runLock[r] = NULL
        /\ cl' = [cl EXCEPT ![c].seen = @ \cup {r},
                            ![c].runningModels = IF heap[r].Running THEN @ \cup {r} ELSE @]
  /\ last' = NoRes
  /\ UNCHANGED <<fit, disk, quota, collection, heap, nrec, runLock, start, nstart,
                 closed, nreq, crashed>>

\* HandleRunningModels, GET, line 357: the loop is over, writeJSONOK
HandleRunningModels_write(c) ==
  /\ Up
  /\ cl[c].pc = "range"
  /\ AllReturned(c) \subseteq cl[c].seen
  /\ Finish(c, [Answer(c, "running", "", 200) EXCEPT
                  !.all = AllReturned(c), !.runningModels = cl[c].runningModels])
  /\ UNCHANGED <<fit, disk, quota, collection, heap, nrec, runLock, start, nstart,
                 closed, nreq, crashed>>

\* Remove, lines 122-128: delete the id from the collection, under the write
\* lock; the worker of the record is not looked at (the TODO of line 125)
Remove(id) ==
  /\ Up
  /\ RepoLockFree
  /\ Indexed
  /\ nreq["remove"] < quota["remove"]
  /\ nreq' = [nreq EXCEPT !["remove"] = @ + 1]
  /\ collection' = [collection EXCEPT ![id] = NULL]
  /\ last' = [NoRes EXCEPT !.op = "remove", !.id = id]
  /\ UNCHANGED <<fit, disk, quota, heap, nrec, runLock, start, nstart, closed, cl,
                 crashed>>

\* uuid.New() in NewModel, line 132: an id that no model has, in the
\* collection, in the model directory or in another fit job, and that no
\* request being served names
FreshId(id) ==
  /\ collection[id] = NULL
  /\ disk[id] = "none"
  /\ \A j \in Jobs : fit[j].id # id
  /\ \A c \in Clients : cl[c].id # id

\* NewModel, lines 131-135: the record made for fit job j; it has the
\* generated ID, Trained is false
NewModel(j) == MaxRecs + j

\* faulty variant: a handler that waits until no fit job runs
FitModelJoined == \A j \in Jobs : fit[j].pc \in {"none", "done"}

\* HandleModels, line 326: `go fitModel(...)` starts the goroutine and goes
\* on; the handler waits for no fit job
GoFitModel == TRUE

\* HandleModels, POST, lines 317-334: a malformed body is answered 400;
\* otherwise NewModel makes a record with a fresh id, which is not added to
\* the collection, fitModel starts in a goroutine of its own and the handler
\* answers 202 with the id
HandleModelsPOST(c, ok) ==
  /\ Up
  /\ Indexed
  /\ GoFitModel
  /\ cl[c].pc = "idle"
  /\ nreq["fit"] < quota["fit"]
  /\ nreq' = [nreq EXCEPT !["fit"] = @ + 1]
  /\ IF ~ok
     THEN /\ last' = Answer(c, "fit", "", 400)
          /\ UNCHANGED <<fit, heap>>
     ELSE \E id \in ModelIds, j \in Jobs :
            /\ FreshId(id)
            /\ fit[j].pc = "none" /\ \A i \in Jobs : i < j => fit[i].pc # "none"
            /\ heap' = [heap EXCEPT ![NewModel(j)] = [NoModel EXCEPT !.ID = id]]
            /\ fit' = [fit EXCEPT ![j] = [NoFit EXCEPT !.pc = "TempFile", !.id = id]]
            /\ last' = Answer(c, "fit", id, 202)
  /\ UNCHANGED <<disk, quota, collection, nrec, runLock, start, nstart,
                 closed, cl, crashed>>

\* faulty variant: a return that skips the removal
RemoveSkipped(tmp) == tmp

\* the deferred os.Remove(f.Name()), line 39: the temp file is gone
osRemove(tmp) == FALSE

\* fitModel returns: the deferred function runs
fitModelReturn(j, status) ==
  fit' = [fit EXCEPT ![j].pc = "done", ![j].status = status,
                     ![j].tmp = osRemove(fit[j].tmp)]

\* fitModel, lines 34-39: ioutil.TempFile; on an error return (nothing is
\* deferred yet, and no file was made)
fitModel_TempFile(j) ==
  /\ Up
  /\ fit[j].pc = "TempFile"
  /\ \/ fit' = [fit EXCEPT ![j].pc = "done", ![j].status = "TempFile error"]
     \/ fit' = [fit EXCEPT ![j].pc = "Encode", ![j].tmp = TRUE]
  /\ last' = NoRes
  /\ UNCHANGED <<disk, quota, collection, heap, nrec, runLock, start, nstart,
                 closed, cl, nreq, crashed>>

\* fitModel, lines 41-51: encode the training data into the file; on an error
\* return
fitModel_Encode(j) ==
  /\ Up
  /\ fit[j].pc = "Encode"
  /\ \/ fitModelReturn(j, "Encode error")
     \/ fit' = [fit EXCEPT ![j].pc = "Run"]
  /\ last' = NoRes
  /\ UNCHANGED <<disk, quota, collection, heap, nrec, runLock, start, nstart,
                 closed, cl, nreq, crashed>>

\* fitModel, line 53: cmd.Run starts python3 and waits; when it cannot be
\* started the error is logged (line 55) and fitModel goes on
fitModel_Run(j) ==
  /\ Up
  /\ fit[j].pc = "Run"
  /\ \/ fit' = [fit EXCEPT ![j].pc = "LoadModelData", ![j].status = "launch error"]
     \/ fit' = [fit EXCEPT ![j].pc = "Wait"]
  /\ last' = NoRes
  /\ UNCHANGED <<disk, quota, collection, heap, nrec, runLock, start, nstart,
                 closed, cl, nreq, crashed>>

\* the fit worker writes <dir>/<id>.json: a metadata file that decodes, or
\* one that does not
FitWorkerWrites(j) ==
  /\ Up
  /\ fit[j].pc = "Wait"
  /\ disk[fit[j].id] = "none"
  /\ \E f \in {"valid", "corrupt"} : disk' = [disk EXCEPT ![fit[j].id] = f]
  /\ last' = NoRes
  /\ UNCHANGED <<fit, quota, collection, heap, nrec, runLock, start, nstart,
                 closed, cl, nreq, crashed>>

\* the fit worker exits and cmd.Run returns, lines 53-56: a nonzero status is
\* logged and fitModel goes on
FitWorkerExit(j) ==
  /\ Up
  /\ fit[j].pc = "Wait"
  /\ \E st \in {"exit 0", "exit nonzero"} :
        fit' = [fit EXCEPT ![j].pc = "LoadModelData", ![j].status = st]
  /\ last' = NoRes
  /\ UNCHANGED <<disk, quota, collection, heap, nrec, runLock, start, nstart,
                 closed, cl, nreq, crashed>>

\* fitModel, line 59: r.LoadModelData(m.ID), the lookup (lines 190-193); a
\* record found is returned, and fitModel returns
fitModel_LoadModelData(j) ==
  /\ Up
  /\ RepoLockFree
  /\ fit[j].pc = "LoadModelData"
  /\ IF collection[fit[j].id] # NULL
     THEN fitModelReturn(j, fit[j].status)
     ELSE fit' = [fit EXCEPT ![j].pc = "LoadModelData_open"]
  /\ last' = NoRes
  /\ UNCHANGED <<disk, quota, collection, heap, nrec, runLock, start, nstart,
                 closed, cl, nreq, crashed>>

\* fitModel, lines 59-63: r.LoadModelData(m.ID), the load (lines 194-213): a
\* metadata file that decodes becomes a record of the collection; an error is
\* logged; fitModel returns
fitModel_LoadModelData_open(j) ==
  /\ Up
  /\ RepoLockFree
  /\ fit[j].pc = "LoadModelData_open"
  /\ LET id == fit[j].id IN
     IF disk[id] = "valid"
     THEN /\ nrec < MaxRecs
          /\ nrec' = nrec + 1
          /\ heap' = [heap EXCEPT ![nrec + 1] = Decoded(id)]
          /\ collection' = AddLoaded(id, nrec + 1)
     ELSE UNCHANGED <<collection, heap, nrec>>
  /\ fitModelReturn(j, fit[j].status)
  /\ last' = NoRes
  /\ UNCHANGED <<disk, quota, runLock, start, nstart, closed, cl, nreq, crashed>>

\* ------------------------------------------------------------- IndexModelDir
\* faulty variant: the scan ends at the first entry that does not load
IndexStopsOnError(err) == err = ""

\* IndexModelDir, line 226: the error of LoadModelData is dropped, the loop
\* goes on
IndexGoesOn(err) == TRUE

\* the error of LoadModelData for an entry of the model directory (lines
\* 194-208); the collection is empty while main indexes
IndexLoadError(id) ==
  CASE disk[id] = "valid" -> ""
    [] disk[id] = "corrupt" -> "decode error"
    [] disk[id] = "unreadable" -> "open error"
    [] OTHER -> ErrModelNotFound

\* IndexModelDir, lines 224-227: the loop from entry i on, over [coll, hp, n]:
\* the collection, the Model objects and their number
RECURSIVE IndexFrom(_, _)
IndexFrom(i, st) ==
  IF i > Len(GlobOrder) THEN st
  ELSE LET id == GlobOrder[i]
           loaded == IF disk[id] = "valid"
                     THEN [coll |-> [st.coll EXCEPT ![id] = st.n + 1],
                           hp |-> [st.hp EXCEPT ![st.n + 1] = Decoded(id)],
                           n |-> st.n + 1]
                     ELSE st
       IN IF IndexGoesOn(IndexLoadError(id)) THEN IndexFrom(i + 1, loaded) ELSE loaded

\* main, IndexModelDir, lines 218-229: Glob the model directory (the pattern
\* "models/*" is well formed: no error), LoadModelData every entry, return nil
IndexModelDir ==
  /\ Up
  /\ ~Indexed
  /\ LET st == IndexFrom(1, [coll |-> collection, hp |-> heap, n |-> nrec])
     IN /\ collection' = st.coll
        /\ heap' = st.hp
        /\ nrec' = st.n
  /\ nreq' = [nreq EXCEPT !["index"] = @ + 1]
  /\ last' = [NoRes EXCEPT !.op = "index", !.err = ""]
  /\ UNCHANGED <<fit, disk, quota, runLock, start, nstart, closed, cl, crashed>>

\* ------------------------------------------------------------- Next
RegistrySteps(c) ==
  \/ Get(c)
  \/ LoadModelData(c)
  \/ LoadModelData_open(c)
  \/ Add(c)
  \/ Get_runLock(c)
  \/ startModel(c)
  \/ startModel_Connect(c)

PredictSteps(c) ==
  \/ Predict(c)
  \/ Predict_send_closed(c)
  \/ Predict_rep(c)
  \/ Predict_recv_closed(c)

SupervisorSteps(k) ==
  \/ Run(k)
  \/ ProcExit(k)
  \/ supervisor_Running(k)
  \/ supervisor_close(k)

\* the bridge with no call in it
BridgeLoop(k) ==
  \/ bridge_range(k)
  \/ bridge_range_end(k)
  \/ bridge_close(k)

\* the bridge serving a call
BridgeCall(k) ==
  \/ bridge_recv(k)
  \/ bridge_ipc(k)
  \/ bridge_rep(k)
  \/ bridge_send(k)

\* GET /models/running
RunningModelsSteps(c) ==
  \/ HandleRunningModelsGET(c)
  \/ HandleRunningModels_range(c)
  \/ HandleRunningModels_write(c)

\* a fitModel goroutine and its worker
FitSteps(j) ==
  \/ fitModel_TempFile(j)
  \/ fitModel_Encode(j)
  \/ fitModel_Run(j)
  \/ FitWorkerWrites(j)
  \/ FitWorkerExit(j)
  \/ fitModel_LoadModelData(j)
  \/ fitModel_LoadModelData_open(j)

Next ==
  \/ \E c \in Clients, id \in ModelIds :
       \/ HandleModelGET(c, id)
       \/ \E ok \in BOOLEAN : HandleModelPOST(c, id, ok)
       \/ HandleRunningModelsPOST(c, id)
       \/ HandleStopModel(c, id)
  \/ \E c \in Clients : HandleModelsGET(c) \/ \E ok \in BOOLEAN : HandleModelsPOST(c, ok)
  \/ \E c \in Clients : RunningModelsSteps(c)
  \/ \E id \in ModelIds : Remove(id)
  \/ \E c \in Clients : RegistrySteps(c) \/ PredictSteps(c) \/ Stop(c)
  \/ \E k \in Starts : SupervisorSteps(k) \/ BridgeLoop(k) \/ BridgeCall(k)
  \/ \E j \in Jobs : FitSteps(j)
  \/ IndexModelDir

Spec == Init /\ [][Next]_vars

\* The server right after main: IndexModelDir has loaded every model of the
\* model directory; clients send prediction requests.
InitServing ==
  /\ disk = [i \in ModelIds |-> IF i = "m1" THEN "valid" ELSE "none"]
  /\ collection = [i \in ModelIds |-> IF i = "m1" THEN 1 ELSE NULL]
  /\ heap = [r \in Recs |-> IF r = 1 THEN [NoModel EXCEPT !.ID = "m1", !.Trained = TRUE]
                                     ELSE NoModel]
  /\ nrec = 1
  /\ runLock = [r \in Recs |-> NULL]
  /\ start = [k \in Starts |-> NoStart]
  /\ nstart = 0
  /\ closed = [ch \in Chans |-> FALSE]
  /\ cl = [c \in Clients |-> Idle]
  /\ last = NoRes
  /\ quota = [o \in Ops |-> IF o = "predict" THEN MaxPredict ELSE 0]
  /\ nreq = [o \in Ops |-> 0]
  /\ crashed = "no"
  /\ fit = [j \in Jobs |-> NoFit]

NextServing ==
  \/ \E c \in Clients, id \in ModelIds :
       HandleModelPOST(c, id, TRUE)
  \/ \E c \in Clients : RegistrySteps(c) \/ PredictSteps(c)
  \/ \E k \in Starts : SupervisorSteps(k) \/ BridgeLoop(k) \/ BridgeCall(k)

SpecServing == InitServing /\ [][NextServing]_vars

\* A model whose metadata file is on disk and not yet in the collection (a fit
\* job has just written it): status lookups and starts race to load it.
InitLoading ==
  /\ disk = [i \in ModelIds |-> IF i = "m1" THEN "valid" ELSE "none"]
  /\ collection = [i \in ModelIds |-> NULL]
  /\ heap = [r \in Recs |-> NoModel]
  /\ nrec = 0
  /\ runLock = [r \in Recs |-> NULL]
  /\ start = [k \in Starts |-> NoStart]
  /\ nstart = 0
  /\ closed = [ch \in Chans |-> FALSE]
  /\ cl = [c \in Clients |-> Idle]
  /\ last = NoRes
  /\ quota = [o \in Ops |-> CASE o = "status" -> MaxStatus [] o = "start" -> MaxStart
                                 [] OTHER -> 0]
  /\ nreq = [o \in Ops |-> 0]
  /\ crashed = "no"
  /\ fit = [j \in Jobs |-> NoFit]

NextLoading ==
  \/ \E c \in Clients, id \in ModelIds :
       \/ HandleModelGET(c, id)
       \/ HandleRunningModelsPOST(c, id)
  \/ \E c \in Clients : RegistrySteps(c)
  \/ \E k \in Starts : SupervisorSteps(k) \/ BridgeLoop(k)

SpecLoading == InitLoading /\ [][NextLoading]_vars

\* Models are indexed and clients start and stop them.
InitStopping ==
  /\ disk = [i \in ModelIds |-> IF i = "m1" THEN "valid" ELSE "none"]
  /\ collection = [i \in ModelIds |-> IF i = "m1" THEN 1 ELSE NULL]
  /\ heap = [r \in Recs |-> IF r = 1 THEN [NoModel EXCEPT !.ID = "m1", !.Trained = TRUE]
                                     ELSE NoModel]
  /\ nrec = 1
  /\ runLock = [r \in Recs |-> NULL]
  /\ start = [k \in Starts |-> NoStart]
  /\ nstart = 0
  /\ closed = [ch \in Chans |-> FALSE]
  /\ cl = [c \in Clients |-> Idle]
  /\ last = NoRes
  /\ quota = [o \in Ops |-> CASE o = "start" -> MaxStart [] o = "stop" -> MaxStop
                                 [] OTHER -> 0]
  /\ nreq = [o \in Ops |-> 0]
  /\ crashed = "no"
  /\ fit = [j \in Jobs |-> NoFit]

NextStopping ==
  \/ \E c \in Clients, id \in ModelIds :
       \/ HandleRunningModelsPOST(c, id)
       \/ HandleStopModel(c, id)
  \/ \E c \in Clients : RegistrySteps(c) \/ Stop(c)
  \/ \E k \in Starts : SupervisorSteps(k) \/ BridgeLoop(k)

SpecStopping == InitStopping /\ [][NextStopping]_vars

\* An empty model directory: clients fit new models, look their status up and
\* list the models.
InitFitting ==
  /\ disk = [i \in ModelIds |-> "none"]
  /\ collection = [i \in ModelIds |-> NULL]
  /\ heap = [r \in Recs |-> NoModel]
  /\ nrec = 0
  /\ runLock = [r \in Recs |-> NULL]
  /\ start = [k \in Starts |-> NoStart]
  /\ nstart = 0
  /\ closed = [ch \in Chans |-> FALSE]
  /\ cl = [c \in Clients |-> Idle]
  /\ last = NoRes
  /\ quota = [o \in Ops |-> CASE o = "fit" -> MaxFit [] o = "status" -> MaxStatus
                                 [] o = "list" -> MaxList [] OTHER -> 0]
  /\ nreq = [o \in Ops |-> 0]
  /\ crashed = "no"
  /\ fit = [j \in Jobs |-> NoFit]

NextFitting ==
  \/ \E c \in Clients, id \in ModelIds : HandleModelGET(c, id)
  \/ \E c \in Clients : HandleModelsGET(c) \/ \E ok \in BOOLEAN : HandleModelsPOST(c, ok)
  \/ \E c \in Clients : LoadModelData(c) \/ LoadModelData_open(c)
  \/ \E j \in Jobs : FitSteps(j)

SpecFitting == InitFitting /\ [][NextFitting]_vars

\* the steps of the fitModel goroutine itself (not of its worker process)
fitModel(j) ==
  \/ fitModel_TempFile(j)
  \/ fitModel_Encode(j)
  \/ fitModel_Run(j)
  \/ fitModel_LoadModelData(j)
  \/ fitModel_LoadModelData_open(j)

\* Fit jobs race with one status lookup and the listing; the Go scheduler runs
\* every goroutine that can run.
InitFittingFair ==
  /\ disk = [i \in ModelIds |-> "none"]
  /\ collection = [i \in ModelIds |-> NULL]
  /\ heap = [r \in Recs |-> NoModel]
  /\ nrec = 0
  /\ runLock = [r \in Recs |-> NULL]
  /\ start = [k \in Starts |-> NoStart]
  /\ nstart = 0
  /\ closed = [ch \in Chans |-> FALSE]
  /\ cl = [c \in Clients |-> Idle]
  /\ last = NoRes
  /\ quota = [o \in Ops |-> CASE o = "fit" -> MaxFit [] o = "status" -> 1
                                 [] o = "list" -> MaxList [] OTHER -> 0]
  /\ nreq = [o \in Ops |-> 0]
  /\ crashed = "no"
  /\ fit = [j \in Jobs |-> NoFit]

SpecFittingFair ==
  InitFittingFair /\ [][NextFitting]_vars /\ \A j \in Jobs : WF_vars(fitModel(j))

\* the steps a handler goroutine takes by itself once it serves a request
\* that goes through the registry or lists the running models
Handler(c) ==
  \/ RegistrySteps(c)
  \/ HandleRunningModels_range(c)
  \/ HandleRunningModels_write(c)

\* the steps of the supervisor goroutine itself (not of the worker process)
Supervisor(k) ==
  \/ Run(k)
  \/ supervisor_Running(k)
  \/ supervisor_close(k)

\* One model is indexed.  Clients start models, known or not, and list the
\* running models while workers exit; the Go scheduler runs every goroutine
\* that can run.
InitLocks ==
  /\ disk = [i \in ModelIds |-> IF i = "m1" THEN "valid" ELSE "none"]
  /\ collection = [i \in ModelIds |-> IF i = "m1" THEN 1 ELSE NULL]
  /\ heap = [r \in Recs |-> IF r = 1 THEN [NoModel EXCEPT !.ID = "m1", !.Trained = TRUE]
                                     ELSE NoModel]
  /\ nrec = 1
  /\ runLock = [r \in Recs |-> NULL]
  /\ start = [k \in Starts |-> NoStart]
  /\ nstart = 0
  /\ closed = [ch \in Chans |-> FALSE]
  /\ cl = [c \in Clients |-> Idle]
  /\ last = NoRes
  /\ quota = [o \in Ops |-> CASE o = "start" -> MaxStart [] o = "running" -> MaxRunning
                                 [] OTHER -> 0]
  /\ nreq = [o \in Ops |-> 0]
  /\ crashed = "no"
  /\ fit = [j \in Jobs |-> NoFit]

NextLocks ==
  \/ \E c \in Clients, id \in ModelIds : HandleRunningModelsPOST(c, id)
  \/ \E c \in Clients : HandleRunningModelsGET(c) \/ Handler(c)
  \/ \E k \in Starts : ProcExit(k) \/ Supervisor(k) \/ BridgeLoop(k)

SpecLocksFair ==
  /\ InitLocks /\ [][NextLocks]_vars
  /\ \A c \in Clients : WF_vars(Handler(c))
  /\ \A k \in Starts : WF_vars(Supervisor(k))

\* One model is indexed, a second one has been fitted since and is on disk
\* only.  Clients list the running models and look models up, which loads
\* them, while records are removed from the registry.
InitRegistry ==
  /\ disk = [i \in ModelIds |-> "valid"]
  /\ collection = [i \in ModelIds |-> IF i = "m1" THEN 1 ELSE NULL]
  /\ heap = [r \in Recs |-> IF r = 1 THEN [NoModel EXCEPT !.ID = "m1", !.Trained = TRUE]
                                     ELSE NoModel]
  /\ nrec = 1
  /\ runLock = [r \in Recs |-> NULL]
  /\ start = [k \in Starts |-> NoStart]
  /\ nstart = 0
  /\ closed = [ch \in Chans |-> FALSE]
  /\ cl = [c \in Clients |-> Idle]
  /\ last = NoRes
  /\ quota = [o \in Ops |-> CASE o = "running" -> MaxRunning [] o = "status" -> MaxStatus
                                 [] o = "remove" -> MaxRemove [] OTHER -> 0]
  /\ nreq = [o \in Ops |-> 0]
  /\ crashed = "no"
  /\ fit = [j \in Jobs |-> NoFit]

NextRegistry ==
  \/ \E c \in Clients, id \in ModelIds : HandleModelGET(c, id)
  \/ \E c \in Clients : RunningModelsSteps(c)
  \/ \E id \in ModelIds : Remove(id)
  \/ \E c \in Clients : LoadModelData(c) \/ LoadModelData_open(c)

SpecRegistry == InitRegistry /\ [][NextRegistry]_vars

\* A model is indexed; clients start it and look it up while its record is
\* removed from the registry.
InitRemoving ==
  /\ disk = [i \in ModelIds |-> IF i = "m1" THEN "valid" ELSE "none"]
  /\ collection = [i \in ModelIds |-> IF i = "m1" THEN 1 ELSE NULL]
  /\ heap = [r \in Recs |-> IF r = 1 THEN [NoModel EXCEPT !.ID = "m1", !.Trained = TRUE]
                                     ELSE NoModel]
  /\ nrec = 1
  /\ runLock = [r \in Recs |-> NULL]
  /\ start = [k \in Starts |-> NoStart]
  /\ nstart = 0
  /\ closed = [ch \in Chans |-> FALSE]
  /\ cl = [c \in Clients |-> Idle]
  /\ last = NoRes
  /\ quota = [o \in Ops |-> CASE o = "start" -> MaxStart [] o = "status" -> 1
                                 [] o = "remove" -> MaxRemove [] OTHER -> 0]
  /\ nreq = [o \in Ops |-> 0]
  /\ crashed = "no"
  /\ fit = [j \in Jobs |-> NoFit]

NextRemoving ==
  \/ \E c \in Clients, id \in ModelIds :
       \/ HandleModelGET(c, id)
       \/ HandleRunningModelsPOST(c, id)
  \/ \E id \in ModelIds : Remove(id)
  \/ \E c \in Clients : RegistrySteps(c)
  \/ \E k \in Starts : SupervisorSteps(k) \/ BridgeLoop(k)

SpecRemoving == InitRemoving /\ [][NextRemoving]_vars

\* The server from main on: the model directory has one model, main indexes
\* it, then one request of each kind but prediction is served.
InitLazy ==
  /\ disk = [i \in ModelIds |-> IF i = "m1" THEN "valid" ELSE "none"]
  /\ collection = [i \in ModelIds |-> NULL]
  /\ heap = [r \in Recs |-> NoModel]
  /\ nrec = 0
  /\ runLock = [r \in Recs |-> NULL]
  /\ start = [k \in Starts |-> NoStart]
  /\ nstart = 0
  /\ closed = [ch \in Chans |-> FALSE]
  /\ cl = [c \in Clients |-> Idle]
  /\ last = NoRes
  /\ quota = [o \in Ops |-> IF o \in {"index", "status", "list", "stop", "fit", "start"}
                             THEN 1 ELSE 0]
  /\ nreq = [o \in Ops |-> 0]
  /\ crashed = "no"
  /\ fit = [j \in Jobs |-> NoFit]

NextLazy ==
  \/ IndexModelDir
  \/ \E c \in Clients, id \in ModelIds :
       \/ HandleModelGET(c, id)
       \/ HandleRunningModelsPOST(c, id)
       \/ HandleStopModel(c, id)
  \/ \E c \in Clients : HandleModelsGET(c) \/ \E ok \in BOOLEAN : HandleModelsPOST(c, ok)
  \/ \E c \in Clients : RegistrySteps(c) \/ Stop(c)
  \/ \E k \in Starts : SupervisorSteps(k) \/ BridgeLoop(k)
  \/ \E j \in Jobs : FitSteps(j)

SpecLazy == InitLazy /\ [][NextLazy]_vars

\* A model whose metadata file is there but cannot be opened, or does not
\* decode, next to a valid one: status lookups and starts.
InitUnreadable ==
  /\ disk \in {d \in [ModelIds -> {"valid", "corrupt", "unreadable"}] :
                d["m1"] = "valid" /\ d["m2"] # "valid"}
  /\ collection = [i \in ModelIds |-> NULL]
  /\ heap = [r \in Recs |-> NoModel]
  /\ nrec = 0
  /\ runLock = [r \in Recs |-> NULL]
  /\ start = [k \in Starts |-> NoStart]
  /\ nstart = 0
  /\ closed = [ch \in Chans |-> FALSE]
  /\ cl = [c \in Clients |-> Idle]
  /\ last = NoRes
  /\ quota = [o \in Ops |-> CASE o = "status" -> MaxStatus [] o = "start" -> MaxStart
                                 [] OTHER -> 0]
  /\ nreq = [o \in Ops |-> 0]
  /\ crashed = "no"
  /\ fit = [j \in Jobs |-> NoFit]

SpecUnreadable == InitUnreadable /\ [][NextLoading]_vars

\* Two models are indexed; clients send prediction requests for them.
InitTwoModels ==
  /\ disk = [i \in ModelIds |-> "valid"]
  /\ collection = [i \in ModelIds |-> IF i = "m1" THEN 1 ELSE 2]
  /\ heap = [r \in Recs |-> CASE r = 1 -> Decoded("m1") [] r = 2 -> Decoded("m2")
                              [] OTHER -> NoModel]
  /\ nrec = 2
  /\ runLock = [r \in Recs |-> NULL]
  /\ start = [k \in Starts |-> NoStart]
  /\ nstart = 0
  /\ closed = [ch \in Chans |-> FALSE]
  /\ cl = [c \in Clients |-> Idle]
  /\ last = NoRes
  /\ quota = [o \in Ops |-> IF o = "predict" THEN MaxPredict ELSE 0]
  /\ nreq = [o \in Ops |-> 0]
  /\ crashed = "no"
  /\ fit = [j \in Jobs |-> NoFit]

\* the steps of Get on a cached record
GetCached(c) ==
  \/ Get(c)
  \/ Add(c)
  \/ Get_runLock(c)
  \/ startModel(c)
  \/ startModel_Connect(c)

NextTwoModels ==
  \/ \E c \in Clients, id \in ModelIds : HandleModelPOST(c, id, TRUE)
  \/ \E c \in Clients : GetCached(c) \/ PredictSteps(c)
  \/ \E k \in Starts : SupervisorSteps(k) \/ BridgeLoop(k) \/ BridgeCall(k)

SpecTwoModels == InitTwoModels /\ [][NextTwoModels]_vars

\* The indexed server; clients send prediction requests, some with a body
\* that does not parse.
NextMalformed ==
  \/ \E c \in Clients, id \in ModelIds, ok \in BOOLEAN :
       HandleModelPOST(c, id, ok)
  \/ \E c \in Clients : RegistrySteps(c) \/ PredictSteps(c)
  \/ \E k \in Starts : SupervisorSteps(k) \/ BridgeLoop(k) \/ BridgeCall(k)

SpecMalformed == InitServing /\ [][NextMalformed]_vars

\* A caller invokes Predict on a record of the registry that no Get has
\* started (its request has the number after the last HTTP request), while
\* the other clients send prediction requests through HandleModel.
InitCold ==
  /\ disk = [i \in ModelIds |-> IF i = "m1" THEN "valid" ELSE "none"]
  /\ collection = [i \in ModelIds |-> IF i = "m1" THEN 1 ELSE NULL]
  /\ heap = [r \in Recs |-> IF r = 1 THEN [NoModel EXCEPT !.ID = "m1", !.Trained = TRUE]
                                     ELSE NoModel]
  /\ nrec = 1
  /\ runLock = [r \in Recs |-> NULL]
  /\ start = [k \in Starts |-> NoStart]
  /\ nstart = 0
  /\ closed = [ch \in Chans |-> FALSE]
  /\ cl = [c \in Clients |-> IF c = 1
                              THEN [Idle EXCEPT !.pc = "Predict", !.op = "predict",
                                                !.id = "m1", !.m = 1,
                                                !.msg = MaxPredict + 1]
                              ELSE Idle]
  /\ last = NoRes
  /\ quota = [o \in Ops |-> IF o = "predict" THEN MaxPredict ELSE 0]
  /\ nreq = [o \in Ops |-> 0]
  /\ crashed = "no"
  /\ fit = [j \in Jobs |-> NoFit]

SpecCold == InitCold /\ [][NextServing]_vars

\* The server starts on a model directory whose entries have a valid metadata
\* file, a corrupt one or none; main indexes it, then clients look models up.
InitIndexing ==
  /\ disk \in [ModelIds -> {"none", "valid", "corrupt"}]
  /\ collection = [i \in ModelIds |-> NULL]
  /\ heap = [r \in Recs |-> NoModel]
  /\ nrec = 0
  /\ runLock = [r \in Recs |-> NULL]
  /\ start = [k \in Starts |-> NoStart]
  /\ nstart = 0
  /\ closed = [ch \in Chans |-> FALSE]
  /\ cl = [c \in Clients |-> Idle]
  /\ last = NoRes
  /\ quota = [o \in Ops |-> CASE o = "index" -> 1 [] o = "status" -> MaxStatus
                                 [] o = "list" -> MaxList [] OTHER -> 0]
  /\ nreq = [o \in Ops |-> 0]
  /\ crashed = "no"
  /\ fit = [j \in Jobs |-> NoFit]

NextIndexing ==
  \/ IndexModelDir
  \/ \E c \in Clients, id \in ModelIds : HandleModelGET(c, id)
  \/ \E c \in Clients : HandleModelsGET(c)
  \/ \E c \in Clients : LoadModelData(c) \/ LoadModelData_open(c)

SpecIndexing == InitIndexing /\ [][NextIndexing]_vars

\* ------------------------------------------------------------- claims
StartErrors == {"zmq.NewSocket", "socket.Connect"}

\* a start whose supervisor has not yet reset Running: from the moment
\* startModel set the flag until supervisor_Running
Outstanding(k) == start[k].rec # NULL /\ start[k].sup \notin {"close", "done"}

\* two handlers whose Get calls looked the same record up before either of
\* them, or anyone since, called startModel
Racing(c1, c2) ==
  /\ c1 # c2
  /\ cl[c1].m # NULL /\ cl[c1].m = cl[c2].m
  /\ cl[c1].hit /\ cl[c2].hit
  /\ cl[c1].k0 = cl[c2].k0

\* C1, as stated: of the concurrent Get calls for a cached record that is not
\* running exactly one runs startModel; the others reuse its worker.
C1_Original ==
  \A c1, c2 \in Clients : Racing(c1, c2) => ~(cl[c1].k # 0 /\ cl[c2].k # 0)

\* C1, amended: a record never has two starts outstanding: startModel runs on
\* a record again only after the supervisor of its previous start has reset
\* Running (the worker exited or could not be launched).  A Get that finds the
\* record running starts nothing, and only a Get whose own startModel failed
\* returns an error.
C1_OneStartOutstanding ==
  /\ \A r \in Recs : Cardinality({k \in StartsOf(r) : Outstanding(k)}) <= 1
  /\ last.err \in StartErrors => last.started # 0

\* C1, witness: of two racing Get calls one has started the worker and the
\* other has returned from Get without starting anything
C1_Witness ==
  \E c1, c2 \in Clients :
     /\ Racing(c1, c2)
     /\ cl[c1].k # 0 /\ cl[c1].pc \in {"Predict", "send", "rep", "recv"}
     /\ cl[c2].k = 0 /\ cl[c2].pc \in {"Predict", "send", "rep", "recv"}
     /\ nstart = 1

\* the callers whose request bridge k has taken and who have no reply yet
InFlight(k) == {c \in Clients : cl[c].by = k /\ cl[c].pc \in {"rep", "recv"}}

\* within one start: while a record is served by the worker of its only
\* start, the bridge has at most one call in flight, holds a request only for
\* a caller that waits for its reply, and a reply a caller receives is the
\* worker's reply to the caller's own request
OneStartOwnReply ==
  /\ \A k \in Starts :
        Cardinality(StartsOf(start[k].rec)) = 1 =>
           /\ Cardinality(InFlight(k)) <= 1
           /\ start[k].bridge \in {"ipc", "reply", "send"} =>
                 \E c \in InFlight(k) : cl[c].msg = start[k].cur
  /\ (last.op = "predict" /\ last.nstarts = 1 /\ last.resp # NoReply) =>
        last.resp = Reply(last.msg, last.by)

\* C3: the bridge of a running worker has at most one call in flight, and a
\* reply that a caller of Predict receives from a worker is the reply to the
\* caller's own request, never the reply to another caller's request.
C3_OneAtATimeOwnReply ==
  /\ \A k \in Starts : start[k].proc = "alive" => Cardinality(InFlight(k)) <= 1
  /\ (last.op = "predict" /\ last.resp # NoReply) => last.resp.of = last.msg

\* C4: once the supervisor of a start has run to its end, the request channel
\* that start made is closed.
C4_SupervisorClosesOwnChannel ==
  \A k \in Starts : (crashed = "no" /\ start[k].sup = "done") => closed[ReqOf(k)]

\* C5: a Predict that finds the record's request channel closed (the worker
\* exited, the supervisor closed m.req, no Get restarted it) returns a
\* worker-unavailable failure to its caller; it does not go on to send.
C5_ClosedChannelIsUnavailable ==
  [][\A c \in Clients :
        (/\ cl[c].pc = "Predict"
         /\ heap[cl[c].m].req # NULL
         /\ closed[heap[cl[c].m].req]
         /\ start[StartOfChan(heap[cl[c].m].req)].proc = "exited"
         /\ cl'[c] # cl[c])
        => (last'.c = c /\ last'.http = 500 /\ last'.err = "worker unavailable")]_vars

\* C6: a Predict whose request the bridge had taken when the worker process
\* exited, and which got no reply, ends as a failure, not as 200 with no labels.
C6_LostCallFails ==
  (/\ last.op = "predict"
   /\ last.by # 0
   /\ start[last.by].lost = last.msg
   /\ last.resp = NoReply)
  => last.http # 200

\* C7: when startModel fails inside Get, the record is not running when Get
\* returns the error.
C7_FailedStartNotRunning ==
  last.err \in StartErrors => ~last.running

\* C10: a record whose Running flag is set (and that is not inside startModel)
\* has a start with a supervisor that will reset the flag and a bridge that
\* serves calls.
C10_RunningMeansServed ==
  \A r \in Recs :
     (heap[r].Running /\ runLock[r] = NULL) =>
        \E k \in StartsOf(r) :
           /\ start[k].sup \in {"Run", "Wait", "defer"}
           /\ start[k].bridge \notin {"none", "close", "done"}

\* the starts of model id whose worker process is running
LiveWorkers(id) ==
  {k \in Starts : /\ start[k].rec # NULL
                  /\ heap[start[k].rec].ID = id
                  /\ start[k].proc = "alive"}

\* the starts of model id whose bridge goroutine has not ended
ActiveBridges(id) ==
  {k \in Starts : /\ start[k].rec # NULL
                  /\ heap[start[k].rec].ID = id
                  /\ start[k].bridge \notin {"none", "done"}}

\* C2: a model id never has two running worker processes, nor two active
\* bridge goroutines.
C2_OneWorkerPerId ==
  \A id \in ModelIds :
     /\ Cardinality(LiveWorkers(id)) <= 1
     /\ Cardinality(ActiveBridges(id)) <= 1

\* C8: a Get that missed the cache for an id with a valid metadata file
\* succeeds: the handler gets the loaded record, which is the one in the cache,
\* with its worker started.
C8_GetLoadsFromDisk ==
  (/\ last.op = "start"
   /\ ~last.hit
   /\ disk[last.id] = "valid"
   /\ last.err \notin StartErrors)
  => /\ last.http = 201
     /\ last.m # NULL
     /\ heap[last.m].ID = last.id /\ heap[last.m].Trained
     /\ last.running

\* a step of handler c that serves an id with no metadata file and no record
\* in the cache
NotFoundStep(c) ==
  /\ cl[c].pc # "idle"
  /\ disk[cl[c].id] = "none"
  /\ collection[cl[c].id] = NULL
  /\ cl'[c] # cl[c]

\* C9: for an id that is neither in the cache nor on disk, Get and
\* LoadModelData change neither the cache nor any record, start no worker,
\* go no further than the load, and end with ErrModelNotFound and 404.
C9_NotFound ==
  [][\A c \in Clients :
        NotFoundStep(c) =>
           /\ collection' = collection /\ heap' = heap /\ nrec' = nrec
           /\ start' = start /\ nstart' = nstart
           /\ cl'[c].pc \in {"LoadModelData", "LoadModelData_open", "idle"}
           /\ cl'[c].pc = "idle" =>
                 /\ last'.c = c /\ last'.err = ErrModelNotFound
                 /\ last'.http = 404 /\ last'.m = NULL]_vars

\* C9, witness: a Get (from the start handler) for such an id was answered 404
C9_Witness ==
  /\ last.op = "start" /\ last.http = 404 /\ last.err = ErrModelNotFound
  /\ disk[last.id] = "none" /\ collection[last.id] = NULL

\* C11: Stop on a record whose worker is not running (never started, command
\* attached but not launched, launch failed, or exited) returns no error: the
\* handler answers 202.
C11_StopOnStoppedIsNoop ==
  (/\ last.op = "stop"
   /\ last.m # NULL
   /\ last.proc \in {"none", "created", "failed", "exited"})
  => (last.http = 202 /\ last.err = "")

\* a step in which handler c runs Stop
StopStep(c) == cl[c].pc = "Stop" /\ cl'[c] # cl[c]

\* C12: Stop changes neither a record (Running, req, rep, cmd) nor a channel
\* nor the collection, and the process it signalled is still running when it
\* returns; Running turns false only in the supervisor of a start of the
\* record, after that start's process has gone.
C12_StopOnlySignals ==
  [][/\ \A c \in Clients :
          StopStep(c) =>
             /\ heap' = heap /\ closed' = closed /\ collection' = collection
             /\ \A k \in Starts : start'[k].proc = start[k].proc
                                  /\ start'[k].sup = start[k].sup
     /\ \A r \in Recs :
          (heap[r].Running /\ ~heap'[r].Running) =>
             \E k \in StartsOf(r) :
                /\ start[k].sup = "defer" /\ start'[k].sup = "close"
                /\ start[k].proc \in {"exited", "failed"}]_vars

\* C12, witness: Stop signalled a running worker and was answered 202 while
\* the record is still Running and the process has not exited
C12_Witness ==
  /\ last.op = "stop" /\ last.http = 202 /\ last.proc = "alive"
  /\ last.running
  /\ \E k \in StartsOf(last.m) : start[k].signalled /\ start[k].proc = "alive"

\* the worker of fit job j exited with status 0 and its metadata file is there
FitSucceeded(j) == fit[j].status = "exit 0" /\ disk[fit[j].id] = "valid"

\* the collection has a trained record of model id
Loaded(id) ==
  /\ collection[id] # NULL
  /\ heap[collection[id]].ID = id
  /\ heap[collection[id]].Trained

\* C13: a fit job whose worker exited with status 0 after writing the
\* metadata file ends, whatever the other fit jobs do, with a trained record
\* of its id in the collection; from then on All lists the record and a status
\* lookup of the id answers 200 with it.
C13_FitLoads ==
  /\ \A j \in Jobs : FitSucceeded(j) ~> (fit[j].pc = "done" /\ Loaded(fit[j].id))
  /\ [](\A j \in Jobs :
          (fit[j].pc = "done" /\ FitSucceeded(j)) =>
             /\ Loaded(fit[j].id)
             /\ last.op = "list" => collection[fit[j].id] \in last.all)
  /\ [][\A j \in Jobs, c \in Clients :
          (/\ fit[j].pc = "done" /\ FitSucceeded(j)
           /\ cl[c].op = "status" /\ cl[c].id = fit[j].id
           /\ cl[c].pc = "LoadModelData" /\ cl'[c] # cl[c])
          => (/\ last'.c = c /\ last'.http = 200
              /\ last'.m = collection[fit[j].id])]_vars

\* C13, witness: a fit job has ended with its record loaded while another
\* fit job is still running, and the record is in the list just served
C13_Witness ==
  \E j1, j2 \in Jobs :
     /\ fit[j1].pc = "done" /\ FitSucceeded(j1) /\ Loaded(fit[j1].id)
     /\ fit[j2].pc \in {"Encode", "Run", "Wait"}
     /\ last.op = "list" /\ collection[fit[j1].id] \in last.all

\* C14: a fit job whose worker exited with a nonzero status puts no record
\* into the collection, whatever the worker left in the model directory.
C14_FailedFitNeverLoads ==
  [][\A j \in Jobs :
        (fit[j].status = "exit nonzero" /\ fit'[j] # fit[j])
        => collection' = collection]_vars

\* fit job j has been created by NewModel and fitModel has not returned
Fitting(j) == fit[j].pc \notin {"none", "done"}

\* C15: while a fit job runs its id is not in the collection (so no listing
\* has it) and a status lookup of the id is answered 404.
C15_NotCachedUntilFitted ==
  \A j \in Jobs :
     Fitting(j) =>
        /\ collection[fit[j].id] = NULL
        /\ (last.op = "status" /\ last.id = fit[j].id) => last.http = 404

\* C16: when fitModel has returned, the temporary file it made is gone.
C16_TempFileRemoved ==
  \A j \in Jobs : fit[j].pc = "done" => ~fit[j].tmp

\* C16, witness: one fit job returned after the encoding failed and another
\* after its worker ran, both after making their temporary file
C16_Witness ==
  \E j1, j2 \in Jobs :
     /\ fit[j1].pc = "done" /\ fit[j1].status = "Encode error" /\ ~fit[j1].tmp
     /\ fit[j2].pc = "done" /\ ~fit[j2].tmp
     /\ fit[j2].status \in {"exit 0", "exit nonzero", "launch error"}

\* the Model objects made for model id
RecordsOf(id) == {r \in 1..nrec : heap[r].ID = id}

C18_NoAutomaticRestart ==
  [][\A k \in Starts :
        /\ (start[k].proc = "none" /\ start'[k].proc # "none") =>
              \E c \in Clients : /\ cl[c].pc = "startModel" /\ cl[c].k = k
                                 /\ cl[c].op \in {"predict", "start"}
                                 /\ runLock[cl[c].m] = c
                                 /\ start'[k].proc = "created"
        /\ (start[k].proc # "alive" /\ start'[k].proc = "alive") =>
              (start[k].proc = "created" /\ start[k].sup = "Run")
        /\ start[k].proc \in {"exited", "failed"} => start'[k].proc = start[k].proc]_vars

\* C18, witness: the worker of a record's first start has exited, its
\* supervisor has ended, and a later Get has started a second worker
C18_Witness ==
  \E k1, k2 \in Starts :
     /\ k1 # k2 /\ start[k1].rec # NULL /\ start[k1].rec = start[k2].rec
     /\ start[k1].proc = "exited" /\ start[k1].sup = "done"
     /\ start[k2].proc = "alive"

\* a start of record r is in progress: startModel has made the channels and
\* attached the command, and Get still holds the lock
StartInProgress(r) ==
  \E c \in Clients : runLock[r] = c /\ cl[c].pc = "Connect"

\* a step in which handler c reads m.req or m.rep (Predict) or m.cmd (Stop)
ObservesStart(c) ==
  /\ cl[c].pc \in {"Predict", "rep", "Stop"}
  /\ cl[c].m # NULL
  /\ cl'[c] # cl[c]

\* C19: Running is written only by a task that holds the record's lock
\* (startModel inside Get, the supervisor's deferred function), the start
\* sequence runs with the lock held, and no task reads the channels or the
\* command of a record while a start of it is in progress.
C19_StartUnderLock ==
  [][/\ \A r \in Recs :
          heap'[r].Running # heap[r].Running =>
             \/ \E c \in Clients : runLock[r] = c /\ cl[c].pc = "startModel" /\ cl[c].m = r
             \/ /\ runLock[r] = NULL
                /\ \E k \in StartsOf(r) : start[k].sup = "defer" /\ start'[k].sup = "close"
     /\ \A r \in Recs :
          (heap'[r].req # heap[r].req \/ heap'[r].rep # heap[r].rep
             \/ heap'[r].cmd # heap[r].cmd) =>
             \E c \in Clients : runLock[r] = c /\ cl[c].pc = "startModel" /\ cl[c].m = r
     /\ \A c \in Clients :
          ObservesStart(c) => ~StartInProgress(cl[c].m)]_vars

\* handler c is inside startModel (called by Get) or inside Predict, waiting
\* for the bridge
StartingOrWaiting(c) == cl[c].pc \in {"startModel", "Connect", "send", "rep", "recv"}

C21_AllIsSnapshot ==
  [][\A c \in Clients :
        /\ (cl[c].pc = "idle" /\ cl'[c].pc = "range") =>
              cl'[c].all = {collection[i] : i \in ModelIds} \ {NULL}
        /\ (cl[c].pc = "range" /\ cl'[c].pc = "range") =>
              /\ cl'[c].all = cl[c].all
              /\ cl'[c].seen \subseteq cl[c].all
        /\ (cl[c].pc = "range" /\ cl'[c].pc = "idle") =>
              /\ last'.all = cl[c].all
              /\ last'.runningModels \subseteq cl[c].all]_vars

\* C21, witness: the list written holds a record that Remove has deleted
\* since All returned and lacks one that Add has inserted since
C21_Witness ==
  /\ last.op = "running"
  /\ \E r \in last.all : r \notin All
  /\ \E r \in All : r \notin last.all

C23_MalformedRejectedFirst ==
  [][\A c \in Clients :
        (cl[c].op = "predict" /\ cl[c].bad /\ cl'[c] # cl[c])
        => /\ cl'[c].pc = "idle"
           /\ last'.c = c /\ last'.http = 400
           /\ collection' = collection /\ heap' = heap /\ nrec' = nrec
           /\ start' = start /\ nstart' = nstart /\ runLock' = runLock]_vars

\* a step of a task that is not a Get: main indexing the model directory, a
\* listing, a handler of a status lookup or of a stop request, a fit job
NotGetStep ==
  \/ nreq'["index"] # nreq["index"]
  \/ nreq'["list"] # nreq["list"]
  \/ \E c \in Clients : cl'[c] # cl[c] /\ (cl[c].op \in {"status", "stop"}
                                            \/ cl'[c].op \in {"status", "stop"})
  \/ fit' # fit

\* C24: a worker process is created only inside Get called for a prediction
\* or a start request, and launched only by the supervisor of that start;
\* indexing, a listing, a status lookup, a stop request and a fit job call no
\* startModel, create and launch no process, and turn no Running flag on: the
\* records they insert are not running.
C24_LazyStart ==
  [][/\ \A k \in Starts :
          /\ (start[k].proc = "none" /\ start'[k].proc # "none") =>
                \E c \in Clients : /\ cl[c].pc = "startModel" /\ cl[c].k = k
                                   /\ cl[c].op \in {"predict", "start"}
          /\ (start[k].proc # "alive" /\ start'[k].proc = "alive") =>
                start[k].proc = "created"
     /\ \A r \in Recs :
          (~heap[r].Running /\ heap'[r].Running) =>
             \E c \in Clients : /\ cl[c].pc = "startModel" /\ cl[c].m = r
                                /\ cl[c].op \in {"predict", "start"}
     /\ NotGetStep =>
          /\ nstart' = nstart
          /\ \A k \in Starts : /\ start'[k].proc = start[k].proc
                                /\ start'[k].sup = start[k].sup
                                /\ start'[k].bridge = start[k].bridge
          /\ \A r \in Recs : /\ heap'[r].Running = heap[r].Running
                              /\ heap'[r].req = heap[r].req
                              /\ heap'[r].cmd = heap[r].cmd]_vars

\* C24, witness: the model main indexed and the model a fit job loaded are in
\* the collection, neither was started by that, and the worker that runs was
\* started by the start request
C24_Witness ==
  /\ \A id \in ModelIds : Loaded(id)
  /\ \E j \in Jobs : fit[j].pc = "done" /\ ~heap[collection[fit[j].id]].Running
                       /\ StartsOf(collection[fit[j].id]) = {}
  /\ nreq["status"] = 1 /\ nreq["list"] = 1 /\ nreq["stop"] = 1
  /\ nstart = 1 /\ start[1].proc = "alive" /\ nreq["start"] = 1

\* handler c is inside Predict: blocked in the send, or its request is with
\* the bridge and it waits for the reply
InPredict(c) == cl[c].pc \in {"send", "rep", "recv"}

\* C25: while a handler is inside Predict on one model (whatever the state of
\* that model's worker), every step of a Get and a Predict on another model
\* can be taken: the lookup, Add, the record's lock when no caller of that
\* model holds it, startModel, the send once that model's bridge is at its
\* loop, the exchange with that model's worker once it was launched, the
\* reply.
C25_ModelsIndependent ==
  \A a, b \in Clients :
     (Up /\ a # b /\ InPredict(a) /\ cl[b].pc # "idle" /\ cl[b].id # cl[a].id) =>
        /\ cl[b].pc = "Get" => ENABLED Get(b)
        /\ cl[b].pc = "Add" => ENABLED Add(b)
        /\ (/\ cl[b].pc = "runLock" /\ runLock[cl[b].m] = NULL
            /\ (heap[cl[b].m].Running \/ nstart < MaxStarts)) => ENABLED Get_runLock(b)
        /\ cl[b].pc = "startModel" => ENABLED startModel(b)
        /\ cl[b].pc = "Connect" => ENABLED startModel_Connect(b)
        /\ cl[b].pc = "Predict" => ENABLED Predict(b)
        /\ cl[b].pc = "rep" => ENABLED Predict_rep(b)
        /\ \A k \in Starts :
              start[k].rec = cl[b].m =>
                 /\ (/\ cl[b].pc = "send" /\ cl[b].ch = start[k].breq
                     /\ start[k].bridge = "recv" /\ ~closed[cl[b].ch]) => ENABLED bridge_recv(k)
                 /\ (start[k].bridge = "ipc" /\ start[k].proc # "created") =>
                       ENABLED bridge_ipc(k)
                 /\ start[k].bridge = "reply" => ENABLED bridge_rep(k)
                 /\ (/\ cl[b].pc = "recv" /\ cl[b].ch = start[k].brep
                     /\ start[k].bridge = "send") => ENABLED bridge_send(k)

\* C25, witness: a request for one model is with the bridge of a worker that
\* died holding it, its caller still waits, and a request for the other
\* model, accepted later, has been answered by that model's worker
C25_Witness ==
  /\ last.op = "predict" /\ last.http = 200 /\ last.by # 0
  /\ last.resp = Reply(last.msg, last.by)
  /\ \E a \in Clients :
        /\ InPredict(a) /\ cl[a].id # last.id /\ cl[a].msg < last.msg
        /\ cl[a].by # 0 /\ cl[a].by # last.by
        /\ start[cl[a].by].proc = "exited" /\ start[cl[a].by].lost = cl[a].msg

\* C26: when Remove has deleted an id from the collection, no worker process
\* of that id is running.
C26_RemovedIsStopped ==
  [][\A id \in ModelIds :
        (collection[id] # NULL /\ collection'[id] = NULL) =>
           \A k \in Starts :
              (start[k].rec # NULL /\ heap[start[k].rec].ID = id) =>
                 start'[k].proc # "alive"]_vars

\* a step in which handler c opens and decodes a metadata file that is there
\* and cannot be opened or decoded
UnreadableStep(c) ==
  /\ cl[c].pc = "LoadModelData_open"
  /\ disk[cl[c].id] \in {"corrupt", "unreadable"}
  /\ cl'[c] # cl[c]

\* C27: when the metadata file of an uncached id is there and cannot be read
\* or decoded, LoadModelData, and Get with it, return an error that is not
\* ErrModelNotFound and no record; nothing is added to the collection, no
\* record is made, no worker is started, and the handler answers 500.
C27_UnreadableIsServerError ==
  [][\A c \in Clients :
        UnreadableStep(c) =>
           /\ cl'[c].pc = "idle"
           /\ last'.c = c /\ last'.m = NULL
           /\ last'.err \notin {"", ErrModelNotFound}
           /\ last'.http = 500
           /\ collection' = collection /\ heap' = heap /\ nrec' = nrec
           /\ start' = start /\ nstart' = nstart]_vars

\* C27, witness: a start request (Get) for an id whose metadata file does not
\* decode was answered 500
C27_Witness ==
  /\ last.op = "start" /\ last.http = 500 /\ last.err = "decode error"
  /\ disk[last.id] = "corrupt" /\ collection[last.id] = NULL

\* C28: a Get that finds the id in the collection and the record running
\* reads no file, puts that same record back under its id, starts nothing,
\* changes no record, channel, process or lock, and returns that record.
C28_GetRunningIdempotent ==
  [][\A c \in Clients :
        /\ (cl[c].pc = "Get" /\ collection[cl[c].id] # NULL /\ cl'[c] # cl[c]) =>
              /\ cl'[c].pc = "Add" /\ cl'[c].m = collection[cl[c].id]
              /\ UNCHANGED <<disk, collection, heap, nrec, start, nstart, closed, runLock>>
        /\ (cl[c].pc = "Add" /\ cl[c].hit /\ cl'[c] # cl[c]) =>
              /\ cl'[c].pc = "runLock" /\ cl'[c].m = cl[c].m
              /\ collection'[cl[c].id] = cl[c].m
              /\ collection[cl[c].id] = cl[c].m => collection' = collection
              /\ UNCHANGED <<disk, heap, nrec, start, nstart, closed, runLock>>
        /\ (/\ cl[c].pc = "runLock" /\ cl[c].hit /\ heap[cl[c].m].Running
            /\ cl'[c] # cl[c]) =>
              /\ UNCHANGED <<disk, collection, heap, nrec, start, nstart, closed, runLock>>
              /\ cl'[c].k = 0
              /\ \/ cl'[c].pc = "Predict" /\ cl'[c].m = cl[c].m
                 \/ /\ cl'[c].pc = "idle" /\ last'.c = c /\ last'.m = cl[c].m
                    /\ last'.http = 201 /\ last'.err = ""]_vars

\* C28, witness: both start requests were served; the one just answered
\* found the record cached and running, started nothing and got the record,
\* whose only worker is alive
C28_Witness ==
  /\ nreq["start"] = MaxStart
  /\ last.op = "start" /\ last.http = 201 /\ last.hit /\ last.started = 0
  /\ last.m # NULL /\ heap[last.m].Running /\ nstart = 1
  /\ \E k \in StartsOf(last.m) : start[k].proc = "alive"

\* C29: when LoadModelData returns a nil error to the status handler, the
\* record it returns is not nil and is the one the collection holds under
\* the id.
C29_LoadReturnsCachedRecord ==
  (last.op = "status" /\ last.err = "")
  => (last.m # NULL /\ last.m = collection[last.id])

\* a fit request of handler c can be given a job and an id
CanSubmit(c) ==
  /\ Up /\ Indexed
  /\ cl[c].pc = "idle"
  /\ nreq["fit"] < quota["fit"]
  /\ \E id \in ModelIds : FreshId(id)

\* C30: a fit request is answered 202 with the id of the job it created in
\* the step that creates the job, before the job has done anything; it can
\* be served whatever the fit jobs already running do; the job keeps that id
\* and a job that succeeded has put the record into the collection under it.
C30_FitAnsweredAtOnce ==
  /\ [](/\ \A c \in Clients : CanSubmit(c) => ENABLED HandleModelsPOST(c, TRUE)
        /\ (last.op = "fit" /\ last.http = 202) =>
              /\ cl[last.c].pc = "idle"
              /\ \E j \in Jobs : fit[j].id = last.id /\ fit[j].pc = "TempFile"
        /\ \A j \in Jobs :
              (fit[j].pc = "done" /\ FitSucceeded(j)) =>
                 /\ collection[fit[j].id] # NULL
                 /\ heap[collection[fit[j].id]].ID = fit[j].id)
  /\ [][\A j \in Jobs : fit[j].pc # "none" => fit'[j].id = fit[j].id]_vars

\* C30, witness: a second fit request has just been answered with its id
\* while the worker of the first fit job is still running
C30_Witness ==
  /\ last.op = "fit" /\ last.http = 202
  /\ \E j1, j2 \in Jobs :
        /\ fit[j1].pc = "Wait" /\ fit[j1].id # last.id
        /\ fit[j2].pc = "TempFile" /\ fit[j2].id = last.id

\* C31: the response channel a start made is closed only by the bridge of
\* that start, and only when the request channel of the same start is
\* closed; the request channel a start made is closed only by the supervisor
\* of that start.
C31_OwnChannelsClosedInOrder ==
  [][\A k \in Starts :
        /\ (~closed[RepOf(k)] /\ closed'[RepOf(k)]) =>
              /\ start[k].bridge = "close" /\ start'[k].bridge = "done"
              /\ closed[ReqOf(k)]
        /\ (~closed[ReqOf(k)] /\ closed'[ReqOf(k)]) =>
              (start[k].sup = "close" /\ start'[k].sup = "done")]_vars

\* C32: Running turns true only inside startModel, called from Get by a
\* handler that holds the record's lock; it turns false only in the deferred
\* function of the supervisor of the record's current worker (m.cmd), whose
\* process has exited or was never launched, and never while a process
\* started for the record is alive.
C32_RunningLifecycle ==
  [][\A r \in Recs :
        /\ (~heap[r].Running /\ heap'[r].Running) =>
              \E c \in Clients :
                 /\ runLock[r] = c /\ cl[c].m = r
                 /\ cl[c].pc = "startModel" /\ cl[c].op \in {"predict", "start"}
        /\ (heap[r].Running /\ ~heap'[r].Running) =>
              /\ \E k \in StartsOf(r) :
                    /\ start[k].sup = "defer" /\ start'[k].sup = "close"
                    /\ heap[r].cmd = k
                    /\ start[k].proc \in {"exited", "failed"}
              /\ \A k \in StartsOf(r) : start[k].proc # "alive"]_vars

\* C32, witness: a record has gone through the whole cycle and is in its
\* second one: the supervisor of its first worker has reset the flag after
\* the exit, and a restart has set it again for a worker that is alive
C32_Witness ==
  \E k1, k2 \in Starts :
     /\ k1 < k2 /\ start[k1].rec # NULL /\ start[k1].rec = start[k2].rec
     /\ start[k1].proc = "exited" /\ start[k1].sup \in {"close", "done"}
     /\ start[k2].proc = "alive" /\ heap[start[k2].rec].Running
     /\ heap[start[k2].rec].cmd = k2

\* C33: no interleaving reaches a channel misuse: no close of a closed
\* channel and no bridge send on a closed response channel (either kills the
\* server process), and no Predict whose send on the request channel panics
\* because the channel is closed.
C33_NoChannelMisuse ==
  /\ crashed \notin {"panic: close of closed channel", "panic: send on closed channel"}
  /\ ~(last.op = "predict" /\ last.err = "panic: send on closed channel")

\* C34: the tasks of a start work only on the channels that start made: its
\* bridge ranges over its own request channel and sends on its own response
\* channel, and a step of its supervisor or bridge closes no channel of
\* another start.
C34_RestartIsolation ==
  /\ \A k \in Starts :
        /\ start[k].breq \in {NULL, ReqOf(k)}
        /\ start[k].brep \in {NULL, RepOf(k)}
  /\ \A k \in Starts :
        /\ start[k].sup = "done" =>
              \A j \in Starts \ {k} : closed[ReqOf(j)] => start[j].sup = "done"
        /\ start[k].bridge = "done" =>
              \A j \in Starts \ {k} : closed[RepOf(j)] => start[j].bridge = "done"

\* the step in which Get, called by handler c, returns its record with a nil
\* error: from the lock with the model running, or from startModel
GetReturnsRecord(c) ==
  /\ cl[c].pc \in {"runLock", "Connect"}
  /\ \/ cl'[c].pc = "Predict"
     \/ last'.c = c /\ last'.http \in {201, 400}

\* the most recent call of startModel on record r (startModel has recorded
\* the call before Get returns)
LastStartOf(r) == CHOOSE k \in StartsOf(r) : \A j \in StartsOf(r) : j <= k

\* C35: when Get returns a record with a nil error, in the state in which it
\* has released the record's lock the record has Running true and the
\* request and response channels made by the most recent startModel on it.
C35_GetReturnsStarted ==
  [][\A c \in Clients :
        GetReturnsRecord(c) =>
           LET m == cl[c].m
           IN /\ runLock'[m] = NULL
              /\ heap'[m].Running
              /\ StartsOf(m) # {}
              /\ heap'[m].req = ReqOf(LastStartOf(m))
              /\ heap'[m].rep = RepOf(LastStartOf(m))]_vars

\* C35, witness: a start request has just been answered 201 by a Get that
\* restarted the model: the record carries the channels of its second start
C35_Witness ==
  /\ last.op = "start" /\ last.http = 201
  /\ last.m # NULL /\ heap[last.m].Running
  /\ \E k1, k2 \in StartsOf(last.m) : k1 < k2 /\ heap[last.m].req = ReqOf(k2)

\* C36: every record in the registry cache has Trained true and is stored
\* under its own ID, and the record NewModel made for a fit job is never in
\* the cache.
C36_CacheHoldsTrainedRecords ==
  \A id \in ModelIds :
     collection[id] # NULL =>
        /\ heap[collection[id]].Trained
        /\ heap[collection[id]].ID = id
        /\ \A j \in Jobs : collection[id] # NewModel(j)

\* C36, witness: a fit job has loaded its model: the cache holds a record
\* under the job's id, while the record NewModel made for the job exists
C36_Witness ==
  \E j \in Jobs :
     /\ fit[j].pc = "done"
     /\ collection[fit[j].id] # NULL
     /\ heap[NewModel(j)].ID = fit[j].id /\ ~heap[NewModel(j)].Trained

\* C37: a task that holds a record's lock across steps is inside startModel,
\* where no registry operation is made (the registry's lock sections and the
\* lock sections of the listing and of the supervisor are single steps that
\* take no second lock); every handler that has begun a request (Get,
\* LoadModelData, All, the listing of the running models) finishes it, and
\* every supervisor whose worker is gone gets the lock and resets Running,
\* unless the server process has died.
C37_LocksNeverNestNorStarve ==
  /\ [](\A r \in Recs : \A c \in Clients :
          runLock[r] = c => (cl[c].m = r /\ cl[c].pc \in {"startModel", "Connect"}))
  /\ \A c \in Clients : (cl[c].pc # "idle") ~> (cl[c].pc = "idle" \/ ~Up)
  /\ \A k \in Starts :
        (start[k].sup = "defer") ~> (start[k].sup \in {"close", "done"} \/ ~Up)

\* C37, witness: a supervisor waits in its deferred function for the lock of
\* a record while a Get holds that lock inside startModel, and another
\* handler waits for the same lock
C37_Witness ==
  \E k \in Starts, c1, c2 \in Clients :
     /\ start[k].sup = "defer"
     /\ runLock[start[k].rec] = c1
     /\ cl[c2].pc \in {"runLock", "range"} /\ c2 # c1

\* start k has a bridge goroutine, or the startModel call that launches it
\* is still running
BridgeComing(k) ==
  \/ start[k].bridge # "none"
  \/ \E c \in Clients : cl[c].pc \in {"startModel", "Connect"} /\ cl[c].k = k

\* C38: a Predict call blocked in its send on the request channel of a
\* start whose worker process is launched and has not exited has a bridge
\* that takes the request (the bridge then forwards it, the live worker
\* answers, and the call returns); without one the call never returns while
\* the worker lives.
C38_LiveWorkerAnswers ==
  \A c \in Clients :
     (cl[c].pc = "send" /\ start[StartOfChan(cl[c].ch)].proc \in {"created", "alive"})
        => BridgeComing(StartOfChan(cl[c].ch))

=============================================================================
